---- MODULE Spec2Model ----
(***************************************************************************)
(* gossip_check.py: one run of main() fetches the cluster's gossip nodes,  *)
(* samples them, geolocates the sampled hosts in chunks, classifies each   *)
(* host against the OFAC set, appends the rows to daily_node_scan.csv and  *)
(* overwrites daily_summary.txt.  Successive runs share only the two       *)
(* files.                                                                  *)
(*                                                                         *)
(* Python strings are TLA+ strings.  A gossip address is the sequence of   *)
(* its pieces, each piece either ":" or a colon-free string, so that       *)
(* split(':')[0] is computed and not assumed.  A dict that can lack a key  *)
(* is a record that lacks the field.                                       *)
(***************************************************************************)
EXTENDS Integers, Sequences, FiniteSets, TLC

VARIABLES
    scale,            \* which family of directory responses the cluster serves
    run,              \* number of runs of main() started so far
    pc,               \* position of the current run in main()
    nodes,            \* main: nodes (result of get_gossip_nodes)
    fetch_outcome,    \* how the getClusterNodes call ended in this run
    valid_nodes,      \* main: valid_nodes
    sampled_nodes,    \* main: sampled_nodes
    ip_list,          \* main: ip_list
    node_map,         \* main: node_map, a dict: [keys: insertion order, val]
    i,                \* get_ip_country_batch: loop variable i (0-based offset)
    results,          \* get_ip_country_batch: results
    requests,         \* the payloads POSTed to the batch endpoint in this run
    chunk_ends,       \* per request of this run: how the chunk ended
    geo_data,         \* main: geo_data
    processed_data,   \* main: processed_data
    country_counter,  \* main: country_counter, a Counter: [keys, cnt]
    sanctioned_count, \* main: sanctioned_count
    csv_exists,       \* os.path.isfile("daily_node_scan.csv")
    csv_lines,        \* the lines of daily_node_scan.csv
    summary_file,     \* the lines of daily_summary.txt
    history           \* per run that wrote the log: sampled count, hosts, rows

vars == <<scale, run, pc, nodes, fetch_outcome, valid_nodes, sampled_nodes,
          ip_list, node_map, i, results, requests, chunk_ends, geo_data,
          processed_data, country_counter, sanctioned_count, csv_exists,
          csv_lines, summary_file, history>>

(***************************************************************************)
(* Configuration (lines 9-20) and the bounds of the model.                 *)
(***************************************************************************)
SAMPLE_SIZE == 150

chunk_size == 100

OFAC_COUNTRIES == {"IR", "KP", "CU", "SY", "RU", "BY", "VE", "MM"}

\* Runs of main() in one behaviour when the cluster is small.
MaxRuns == 2

\* Longest directory response of the small cluster.
MaxPeers == 3

\* The large cluster serves up to SAMPLE_SIZE + MaxExtra nodes.
MaxExtra == 1

\* Python's None, as returned by dict.get for a missing key.
None == "<None>"

Min(a, b) == IF a < b THEN a ELSE b

\* s[a:b] of Python, with 0-based offsets a <= b.
Slice(s, a, b) == SubSeq(s, a + 1, Min(b, Len(s)))

Digit == <<"0", "1", "2", "3", "4", "5", "6", "7", "8", "9">>

RECURSIVE NumStr(_)
NumStr(n) == IF n < 10 THEN Digit[n + 1]
             ELSE NumStr(n \div 10) \o Digit[(n % 10) + 1]

\* dict.get(key) on a node of the directory response.
Get(n, key) == IF key \in DOMAIN n THEN n[key] ELSE None

(***************************************************************************)
(* Directory responses.  A node is the JSON object of getClusterNodes:     *)
(* pubkey, gossip, version, any of which can be missing.  gossip is the    *)
(* sequence of the address's pieces; the empty string is <<>>.             *)
(***************************************************************************)
Node(pk, addr, ver) == [pubkey |-> pk, gossip |-> addr, version |-> ver]

PeerA == Node("A", <<"1.1.1.1", ":", "8001">>, "1.18.0")
PeerB == Node("B", <<"2.2.2.2", ":", "8001">>, "1.18.0")
PeerC == Node("C", <<"3.3.3.3", ":", "8001">>, "1.17.5")
\* The host of PeerA again, on another port.
PeerD == Node("D", <<"1.1.1.1", ":", "9000">>, "1.17.5")
\* gossip is the empty string.
PeerE == Node("E", <<>>, "1.18.0")
\* gossip and version are missing.
PeerF == [pubkey |-> "F"]
\* An address with no port.
PeerG == Node("G", <<"2.2.2.2">>, "1.18.0")

\* The small cluster's responses are the prefixes, up to MaxPeers nodes, of
\* these listings.
Listings ==
    { <<PeerA, PeerB, PeerC, PeerD, PeerE>>,
      <<PeerD, PeerE, PeerA, PeerG, PeerB>>,
      <<PeerF, PeerB, PeerG, PeerA, PeerC>> }

SmallDirectories ==
    { SubSeq(l, 1, n) : l \in Listings, n \in 0..Min(MaxPeers, 5) }

\* Node k of the large cluster.  In the "distinct" layout every node has its
\* own host; in the "shared" layout node k + chunk_size has the host of node
\* k; in the "gaps" layout node 50 has an empty gossip address.
BigHost(k) == "10.0.0." \o NumStr(k)

BigNode(layout, k) ==
    LET h == IF layout = "shared" THEN BigHost(((k - 1) % chunk_size) + 1)
             ELSE BigHost(k)
        addr == IF layout = "gaps" /\ k = 50 THEN <<>>
                ELSE <<h, ":", "8001">>
    IN  Node("N" \o NumStr(k), addr, "1.18.0")

BigLayouts == {"distinct", "shared", "gaps"}

BigDirectories ==
    { [k \in 1..n |-> BigNode(layout, k)] :
        layout \in BigLayouts, n \in SAMPLE_SIZE..(SAMPLE_SIZE + MaxExtra) }

Directories(sc) == IF sc = "small" THEN SmallDirectories ELSE BigDirectories

RunLimit(sc) == IF sc = "small" THEN MaxRuns ELSE 1

(***************************************************************************)
(* get_gossip_nodes (lines 22-39).  The call ends in one of these ways;    *)
(* only "ok" carries a body with a 'result' field.                         *)
(***************************************************************************)
FetchOutcomes == {"ok", "transport_error", "timeout", "http_error", "no_result"}

\* As GossipNodes, without the raise_for_status() of line 32.
GossipNodesNoRaise(outcome, result) ==
    IF outcome \in {"ok", "http_error"} THEN result ELSE <<>>

\* The value get_gossip_nodes returns: data['result'] when the body has it,
\* [] from the except branch (line 38) and from the fall-through (line 39).
GossipNodes(outcome, result) == IF outcome = "ok" THEN result ELSE <<>>

(***************************************************************************)
(* Filtering and sampling (lines 71-79).                                   *)
(***************************************************************************)
\* n.get('gossip') is truthy: the key is present and the string non-empty.
HasGossip(n) == "gossip" \in DOMAIN n /\ n.gossip # <<>>

\* As ValidNodes, testing for the key and not for a non-empty address.
ValidNodesKeyOnly(ns) == SelectSeq(ns, LAMBDA n : "gossip" \in DOMAIN n)

\* valid_nodes = [n for n in nodes if n.get('gossip')]
ValidNodes(ns) == SelectSeq(ns, HasGossip)

\* random.sample(population, SAMPLE_SIZE) returns SAMPLE_SIZE elements at
\* distinct positions of the population, in any order.  Of these outcomes the
\* model takes the ones that leave out a block of consecutive positions
\* (starting at the front, at a chunk boundary or at the back) and keep the
\* rest in directory order or in reverse order.
SampleAt(n, d, rev) ==
    LET e   == n - SAMPLE_SIZE
        asc == [k \in 1..SAMPLE_SIZE |-> IF k < d THEN k ELSE k + e]
    IN  IF rev THEN [k \in 1..SAMPLE_SIZE |-> asc[SAMPLE_SIZE + 1 - k]] ELSE asc

RandomSample(n) ==
    { SampleAt(n, d, rev) :
        d \in {1, chunk_size, SAMPLE_SIZE + 1}, rev \in BOOLEAN }

\* The positions of valid_nodes that sampled_nodes can hold (lines 76-79).
SamplePositions(n) ==
    IF n > SAMPLE_SIZE THEN RandomSample(n) ELSE { [k \in 1..n |-> k] }

(***************************************************************************)
(* Host extraction and node_map (lines 85-93).                             *)
(***************************************************************************)
\* gossip_addr.split(':')[0]: everything before the first ':'.
RECURSIVE SplitFirst(_)
SplitFirst(addr) ==
    IF addr = <<>> \/ Head(addr) = ":" THEN ""
    ELSE Head(addr) \o SplitFirst(Tail(addr))

EmptyDict == [keys |-> <<>>, val |-> <<>>]

\* d[k] = v on a dict: a new key goes last, an existing key keeps its place.
DictSet(d, k, v) ==
    [keys |-> IF k \in DOMAIN d.val THEN d.keys ELSE Append(d.keys, k),
     val  |-> (k :> v) @@ d.val]

\* As DictUpdate, an existing key keeping its first value.
DictUpdateFirstWins(a, b) ==
    [keys |-> a.keys \o SelectSeq(b.keys, LAMBDA k : k \notin DOMAIN a.val),
     val  |-> a.val @@ b.val]

\* The effect on a dict of the assignments that built b, made after the ones
\* that built a.
DictUpdate(a, b) ==
    [keys |-> a.keys \o SelectSeq(b.keys, LAMBDA k : k \notin DOMAIN a.val),
     val  |-> b.val @@ a.val]

\* The body of the loop of lines 88-93 for one node, from empty ip_list and
\* node_map.
ExtractOne(node) ==
    IF HasGossip(node)
    THEN LET ip == SplitFirst(node.gossip)
         IN  [ip_list |-> <<ip>>, node_map |-> DictSet(EmptyDict, ip, node)]
    ELSE [ip_list |-> <<>>, node_map |-> EmptyDict]

\* The loop over sampled[lo..hi], run as the loop over the first half
\* followed by the loop over the second half.
RECURSIVE ExtractRange(_, _, _)
ExtractRange(sampled, lo, hi) ==
    IF lo > hi THEN [ip_list |-> <<>>, node_map |-> EmptyDict]
    ELSE IF lo = hi THEN ExtractOne(sampled[lo])
    ELSE LET mid == (lo + hi) \div 2
             a == ExtractRange(sampled, lo, mid)
             b == ExtractRange(sampled, mid + 1, hi)
         IN  [ip_list  |-> a.ip_list \o b.ip_list,
              node_map |-> DictUpdate(a.node_map, b.node_map)]

\* The loop of lines 88-93: ip_list and node_map after it.
ExtractIPs(sampled) == ExtractRange(sampled, 1, Len(sampled))

(***************************************************************************)
(* get_ip_country_batch (lines 41-65).                                     *)
(***************************************************************************)
\* What the service knows of a host: <<countryCode, country>>, or <<>> when
\* its reply item carries neither field.
GeoUS == <<"US", "United States">>
GeoRU == <<"RU", "Russia">>
GeoIR == <<"IR", "Iran">>
GeoDE == <<"DE", "Germany">>
GeoNone == <<>>

\* The service answers the k-th query of a request from a repeating pattern.
GeoPatterns ==
    { <<GeoUS, GeoRU, GeoNone>>, <<GeoIR, GeoNone, GeoIR, GeoDE>> }

ReplyItem(h, e) ==
    IF e = <<>> THEN [query |-> h]
    ELSE [query |-> h, countryCode |-> e[1], country |-> e[2]]

ReplyItems(chunk, p) ==
    [k \in 1..Len(chunk) |-> ReplyItem(chunk[k], p[((k - 1) % Len(p)) + 1])]

\* An item that is no answer to a query: it has no 'query' key.
BadItem == [message |-> "invalid"]

\* The bodies the service sends for a request, each item echoing its query:
\* every query answered ("full"), the last query left out ("short"), or the
\* last item malformed ("broken").
ReplyData(chunk, p, shape) ==
    LET items == ReplyItems(chunk, p)
        n == Len(items)
    IN  CASE shape = "full"   -> items
          [] shape = "short"  -> SubSeq(items, 1, n - 1)
          [] shape = "broken" -> Append(SubSeq(items, 1, n - 1), BadItem)

ReplyShapes == {"full", "short", "broken"}

\* How the POST of line 54 and the parse of line 55 can end.
Replies(chunk) ==
    { [kind |-> k, data |-> <<>>] : k \in {"transport_error", "not_json"} }
    \cup { [kind |-> "json", data |-> ReplyData(chunk, p, shape)] :
             p \in GeoPatterns, shape \in ReplyShapes }

\* item.get(key, 'Unknown')
ItemGet(item, key) == IF key \in DOMAIN item THEN item[key] ELSE "Unknown"

\* The entry lines 59-62 store for one item.
GeoEntry(item) ==
    [code |-> ItemGet(item, "countryCode"), name |-> ItemGet(item, "country")]

\* The assignments of lines 59-62 for data[lo..hi], later ones over earlier
\* ones.
RECURSIVE StoreRange(_, _, _)
StoreRange(data, lo, hi) ==
    IF lo > hi THEN <<>>
    ELSE IF lo = hi THEN data[lo].query :> GeoEntry(data[lo])
    ELSE LET mid == (lo + hi) \div 2
         IN  StoreRange(data, mid + 1, hi) @@ StoreRange(data, lo, mid)

\* The number of items the loop of line 57 gets through: item['query']
\* raises KeyError on the first item without the key.
ItemsStored(data) ==
    LET bad == {k \in 1..Len(data) : "query" \notin DOMAIN data[k]}
    IN  IF bad = {} THEN Len(data)
        ELSE (CHOOSE k \in bad : \A j \in bad : k <= j) - 1

\* As StoreReply, the except branch starting results over.
StoreReplyReset(res, reply) ==
    IF reply.kind = "json" /\ ItemsStored(reply.data) = Len(reply.data)
    THEN [results |-> StoreRange(reply.data, 1, Len(reply.data)) @@ res,
          raised  |-> FALSE,
          stored  |-> Len(reply.data)]
    ELSE [results |-> <<>>, raised |-> TRUE,
          stored  |-> IF reply.kind = "json" THEN ItemsStored(reply.data)
                      ELSE 0]

\* One pass of the try block (lines 51-64) on a reply: results afterwards,
\* whether the except branch ran, and how many items were stored.  The
\* entries stored before an exception stay in results.
StoreReply(res, reply) ==
    IF reply.kind = "json"
    THEN LET n == ItemsStored(reply.data)
         IN  [results |-> StoreRange(reply.data, 1, n) @@ res,
              raised  |-> n < Len(reply.data),
              stored  |-> n]
    ELSE [results |-> res, raised |-> TRUE, stored |-> 0]

\* The offset the loop of line 49 takes after offset k.
NextOffset(k) == k + chunk_size

\* As Chunk, the slice one element too long.
ChunkOneMore(ips, k) == Slice(ips, k, k + chunk_size + 1)

\* chunk = ips[i:i + chunk_size]
Chunk(ips, k) == Slice(ips, k, k + chunk_size)

(***************************************************************************)
(* Classification (lines 98-122).                                          *)
(***************************************************************************)
\* datetime.now().isoformat(): the clock is the number of the run.
IsoFormat(t) == "2026-01-0" \o NumStr(t) \o "T00:00:00"

\* datetime.now().strftime('%Y-%m-%d %H:%M:%S')
StrfTime(t) == "2026-01-0" \o NumStr(t) \o " 00:00:00"

\* As Location, the default carrying the code 'Unknown'.
LocationUnknownCode(geo, ip) ==
    IF ip \in DOMAIN geo THEN geo[ip]
    ELSE [code |-> "Unknown", name |-> "Unknown"]

\* geo_data.get(ip, {'code': 'XX', 'name': 'Unknown'})
Location(geo, ip) ==
    IF ip \in DOMAIN geo THEN geo[ip] ELSE [code |-> "XX", name |-> "Unknown"]

\* As IsSanctioned, a host with no geolocation entry counted as sanctioned.
IsSanctionedOrMissing(country_code) ==
    country_code \in OFAC_COUNTRIES \cup {"XX"}

\* country_code in OFAC_COUNTRIES
IsSanctioned(country_code) == country_code \in OFAC_COUNTRIES

EmptyCounter == [keys |-> <<>>, cnt |-> <<>>]

\* counter[k] += 1 on a Counter
CounterInc(c, k) ==
    IF k \in DOMAIN c.cnt
    THEN [keys |-> c.keys, cnt |-> (k :> (c.cnt[k] + 1)) @@ c.cnt]
    ELSE [keys |-> Append(c.keys, k), cnt |-> (k :> 1) @@ c.cnt]

\* counter.get(k, 0)
CounterGet(c, k) == IF k \in DOMAIN c.cnt THEN c.cnt[k] ELSE 0

RECURSIVE SumFrom(_, _)
SumFrom(c, k) ==
    IF k > Len(c.keys) THEN 0 ELSE c.cnt[c.keys[k]] + SumFrom(c, k + 1)

\* sum(counter.values())
CounterSum(c) == SumFrom(c, 1)

ScanRow(now, ip, node, location) ==
    [timestamp          |-> IsoFormat(now),
     pubkey             |-> Get(node, "pubkey"),
     gossip_ip          |-> ip,
     version            |-> Get(node, "version"),
     country_code       |-> location.code,
     country_name       |-> location.name,
     is_ofac_sanctioned |-> IsSanctioned(location.code)]

\* As CounterAdd, the later count assigned and not added.
CounterAddOverwrite(a, b) ==
    [keys |-> a.keys \o SelectSeq(b.keys, LAMBDA k : k \notin DOMAIN a.cnt),
     cnt  |-> b.cnt @@ a.cnt]

\* The effect on a Counter of the increments that built b, made after the
\* ones that built a.
CounterAdd(a, b) ==
    [keys |-> a.keys \o SelectSeq(b.keys, LAMBDA k : k \notin DOMAIN a.cnt),
     cnt  |-> [k \in DOMAIN a.cnt \cup DOMAIN b.cnt |->
                  CounterGet(a, k) + CounterGet(b, k)]]

\* The body of the loop of lines 103-122 for one item of node_map, from
\* empty processed_data, country_counter and sanctioned_count.
ClassifyOne(now, ip, node, geo) ==
    LET row == ScanRow(now, ip, node, Location(geo, ip))
    IN  [processed_data   |-> <<row>>,
         country_counter  |-> CounterInc(EmptyCounter, row.country_code),
         sanctioned_count |-> IF row.is_ofac_sanctioned THEN 1 ELSE 0]

\* The loop over items lo..hi of node_map, run as the loop over the first
\* half followed by the loop over the second half.
RECURSIVE ClassifyRange(_, _, _, _, _)
ClassifyRange(now, nmap, geo, lo, hi) ==
    IF lo > hi
    THEN [processed_data |-> <<>>, country_counter |-> EmptyCounter,
          sanctioned_count |-> 0]
    ELSE IF lo = hi
    THEN ClassifyOne(now, nmap.keys[lo], nmap.val[nmap.keys[lo]], geo)
    ELSE LET mid == (lo + hi) \div 2
             a == ClassifyRange(now, nmap, geo, lo, mid)
             b == ClassifyRange(now, nmap, geo, mid + 1, hi)
         IN  [processed_data   |-> a.processed_data \o b.processed_data,
              country_counter  |-> CounterAdd(a.country_counter,
                                              b.country_counter),
              sanctioned_count |-> a.sanctioned_count + b.sanctioned_count]

\* The loop of lines 103-122 over node_map.items().
Classified(now, nmap, geo) ==
    ClassifyRange(now, nmap, geo, 1, Len(nmap.keys))

(***************************************************************************)
(* Report writer (lines 124-167).                                          *)
(***************************************************************************)
fieldnames == <<"timestamp", "pubkey", "gossip_ip", "version", "country_code",
                "country_name", "is_ofac_sanctioned">>

\* csv.DictWriter writes None as the empty string and a bool as its str().
Cell(v) == IF v = None THEN "" ELSE v

CsvRow(row) ==
    <<row.timestamp, Cell(row.pubkey), row.gossip_ip, Cell(row.version),
      row.country_code, row.country_name,
      IF row.is_ofac_sanctioned THEN "True" ELSE "False">>

CsvRows(rows) == [k \in 1..Len(rows) |-> CsvRow(rows[k])]

\* As AppendCsv, the header written by every run.
AppendCsvHeaderAlways(exists, lines, rows) ==
    (IF exists THEN lines ELSE <<>>) \o <<fieldnames>> \o CsvRows(rows)

\* Lines 129-136: the file after open(..., 'a'), writeheader() when the file
\* did not exist, and writerows(processed_data).
AppendCsv(exists, lines, rows) ==
    (IF exists THEN lines ELSE <<>>)
        \o (IF ~exists THEN <<fieldnames>> ELSE <<>>)
        \o CsvRows(rows)

\* Line 142 as line 150 prints it with :.2f, in hundredths of a percent: the
\* quotient rounded to the nearest hundredth, an exact tie to the even one.
NonCompliancePct(sanctioned, total) ==
    IF total > 0
    THEN LET q == (sanctioned * 10000) \div total
             r == (sanctioned * 10000) % total
         IN  IF 2 * r > total \/ (2 * r = total /\ q % 2 = 1) THEN q + 1 ELSE q
    ELSE 0

\* f"{x:.2f}" of a value given in hundredths.
Fixed2(h) ==
    NumStr(h \div 100) \o "." \o Digit[((h \div 10) % 10) + 1]
        \o Digit[(h % 10) + 1]

\* Index of the first key, among keys, with the largest count.
FirstMax(keys, cnt) ==
    CHOOSE k \in 1..Len(keys) :
        /\ \A j \in 1..Len(keys) : cnt[keys[j]] <= cnt[keys[k]]
        /\ \A j \in 1..(k - 1) : cnt[keys[j]] < cnt[keys[k]]

RECURSIVE MostCommonOf(_, _)
MostCommonOf(keys, cnt) ==
    IF keys = <<>> THEN <<>>
    ELSE LET k == FirstMax(keys, cnt)
         IN  <<keys[k]>> \o MostCommonOf(
                 SubSeq(keys, 1, k - 1) \o SubSeq(keys, k + 1, Len(keys)), cnt)

\* Counter.most_common(): the keys by descending count, ties in insertion
\* order.
MostCommon(c) == MostCommonOf(c.keys, c.cnt)

Separator == "---------------------------------------"

\* summary_lines of lines 144-164 (the flag emoji of lines 153-157 left out).
SummaryLines(now, total, sanctioned, c) ==
    << "--- Solana Gossip Node Scan Summary ---",
       "Date: " \o StrfTime(now),
       "Total Nodes Sampled: " \o NumStr(total),
       Separator,
       "Sanctioned Nodes (OFAC): " \o NumStr(sanctioned),
       "Non-Compliance Percentage: "
           \o Fixed2(NonCompliancePct(sanctioned, total)) \o "%",
       Separator,
       "Top Countries:",
       "  US (USA): " \o NumStr(CounterGet(c, "US")),
       "  DE (Germany): " \o NumStr(CounterGet(c, "DE")),
       "  RU (Russia): " \o NumStr(CounterGet(c, "RU")),
       "  IR (Iran): " \o NumStr(CounterGet(c, "IR")),
       "  KP (North Korea): " \o NumStr(CounterGet(c, "KP")),
       "  Other: " \o NumStr(total - CounterSum(c)),
       Separator,
       "Full Country Breakdown:" >>
    \o LET mc == MostCommon(c)
       IN  [k \in 1..Len(mc) |-> "  " \o mc[k] \o ": " \o NumStr(c.cnt[mc[k]])]

\* As WriteFile, the file opened in append mode.
WriteFileAppend(old, lines) == old \o lines

\* Lines 166-167: open("daily_summary.txt", "w") and write.
WriteFile(old, lines) == lines

(***************************************************************************)
(* The runs.  pc names the next step of main(); a run that reached "done"  *)
(* has exited, and the next run starts from fresh locals.                  *)
(***************************************************************************)
Locals ==
    /\ nodes = <<>>
    /\ fetch_outcome = "none"
    /\ valid_nodes = <<>>
    /\ sampled_nodes = <<>>
    /\ ip_list = <<>>
    /\ node_map = EmptyDict
    /\ i = 0
    /\ results = <<>>
    /\ requests = <<>>
    /\ chunk_ends = <<>>
    /\ geo_data = <<>>
    /\ processed_data = <<>>
    /\ country_counter = EmptyCounter
    /\ sanctioned_count = 0

InitFiles ==
    /\ run = 0
    /\ pc = "fetch"
    /\ csv_exists = FALSE
    /\ csv_lines = <<>>
    /\ summary_file = <<>>
    /\ history = <<>>

\* The small cluster, run up to MaxRuns times.
Init == scale = "small" /\ InitFiles /\ Locals

\* The large cluster, run once.
InitLarge == scale = "big" /\ InitFiles /\ Locals

\* Line 69: nodes = get_gossip_nodes(), at the start of a run.
FetchNodes ==
    /\ pc \in {"fetch", "done"}
    /\ run < RunLimit(scale)
    /\ \E outcome \in FetchOutcomes, result \in Directories(scale) :
          /\ fetch_outcome' = outcome
          /\ nodes' = GossipNodes(outcome, result)
    /\ run' = run + 1
    /\ pc' = "sample"
    /\ valid_nodes' = <<>>
    /\ sampled_nodes' = <<>>
    /\ ip_list' = <<>>
    /\ node_map' = EmptyDict
    /\ i' = 0
    /\ results' = <<>>
    /\ requests' = <<>>
    /\ chunk_ends' = <<>>
    /\ geo_data' = <<>>
    /\ processed_data' = <<>>
    /\ country_counter' = EmptyCounter
    /\ sanctioned_count' = 0
    /\ UNCHANGED <<scale, csv_exists, csv_lines, summary_file, history>>

\* Lines 72-79.
SampleNodes ==
    /\ pc = "sample"
    /\ valid_nodes' = ValidNodes(nodes)
    /\ \E pos \in SamplePositions(Len(valid_nodes')) :
          sampled_nodes' = [k \in 1..Len(pos) |-> valid_nodes'[pos[k]]]
    /\ pc' = "extract"
    /\ UNCHANGED <<scale, run, nodes, fetch_outcome, ip_list, node_map, i,
                   results, requests, chunk_ends, geo_data, processed_data,
                   country_counter, sanctioned_count, csv_exists, csv_lines,
                   summary_file, history>>

\* Lines 85-93, and the entry into get_ip_country_batch (lines 46-49).
ExtractHosts ==
    /\ pc = "extract"
    /\ LET x == ExtractIPs(sampled_nodes)
       IN  /\ ip_list' = x.ip_list
           /\ node_map' = x.node_map
    /\ results' = <<>>
    /\ i' = 0
    /\ pc' = "geo"
    /\ UNCHANGED <<scale, run, nodes, fetch_outcome, valid_nodes,
                   sampled_nodes, requests, chunk_ends, geo_data,
                   processed_data, country_counter, sanctioned_count,
                   csv_exists, csv_lines, summary_file, history>>

\* One iteration of the loop of line 49: lines 50-64.
GeoChunk ==
    /\ pc = "geo"
    /\ i < Len(ip_list)
    /\ LET chunk == Chunk(ip_list, i)
       IN  \E reply \in Replies(chunk) :
              LET r == StoreReply(results, reply)
              IN  /\ requests' = Append(requests, chunk)
                  /\ results' = r.results
                  /\ chunk_ends' = Append(chunk_ends,
                        [offset |-> i, raised |-> r.raised,
                         stored |-> r.stored])
    /\ i' = NextOffset(i)
    /\ UNCHANGED <<scale, run, pc, nodes, fetch_outcome, valid_nodes,
                   sampled_nodes, ip_list, node_map, geo_data, processed_data,
                   country_counter, sanctioned_count, csv_exists, csv_lines,
                   summary_file, history>>

\* The loop of line 49 is over: line 65 returns results, line 96 binds them.
GeoReturn ==
    /\ pc = "geo"
    /\ i >= Len(ip_list)
    /\ geo_data' = results
    /\ pc' = "classify"
    /\ UNCHANGED <<scale, run, nodes, fetch_outcome, valid_nodes,
                   sampled_nodes, ip_list, node_map, i, results, requests,
                   chunk_ends, processed_data, country_counter,
                   sanctioned_count, csv_exists, csv_lines, summary_file,
                   history>>

\* Lines 99-122.
Classify ==
    /\ pc = "classify"
    /\ LET x == Classified(run, node_map, geo_data)
       IN  /\ processed_data' = x.processed_data
           /\ country_counter' = x.country_counter
           /\ sanctioned_count' = x.sanctioned_count
    /\ pc' = "csv"
    /\ UNCHANGED <<scale, run, nodes, fetch_outcome, valid_nodes,
                   sampled_nodes, ip_list, node_map, i, results, requests,
                   chunk_ends, geo_data, csv_exists, csv_lines, summary_file,
                   history>>

\* Lines 127-136.
WriteCsv ==
    /\ pc = "csv"
    /\ csv_lines' = AppendCsv(csv_exists, csv_lines, processed_data)
    /\ csv_exists' = TRUE
    /\ history' = Append(history,
          [sampled |-> Len(sampled_nodes),
           hosts   |-> Cardinality({ip_list[k] : k \in 1..Len(ip_list)}),
           written |-> CsvRows(processed_data)])
    /\ pc' = "summary"
    /\ UNCHANGED <<scale, run, nodes, fetch_outcome, valid_nodes,
                   sampled_nodes, ip_list, node_map, i, results, requests,
                   chunk_ends, geo_data, processed_data, country_counter,
                   sanctioned_count, summary_file>>

\* Lines 141-167, after which main() returns.
WriteSummary ==
    /\ pc = "summary"
    /\ summary_file' = WriteFile(summary_file,
          SummaryLines(run, Len(processed_data), sanctioned_count,
                       country_counter))
    /\ pc' = "done"
    /\ UNCHANGED <<scale, run, nodes, fetch_outcome, valid_nodes,
                   sampled_nodes, ip_list, node_map, i, results, requests,
                   chunk_ends, geo_data, processed_data, country_counter,
                   sanctioned_count, csv_exists, csv_lines, history>>

Next ==
    \/ FetchNodes
    \/ SampleNodes
    \/ ExtractHosts
    \/ GeoChunk
    \/ GeoReturn
    \/ Classify
    \/ WriteCsv
    \/ WriteSummary

Spec == Init /\ [][Next]_vars

SpecLarge == InitLarge /\ [][Next]_vars

(***************************************************************************)
(* Properties.                                                             *)
(***************************************************************************)
Range(s) == {s[k] : k \in 1..Len(s)}

Sampled == pc \notin {"fetch", "sample"}

Extracted == pc \in {"geo", "classify", "csv", "summary", "done"}

Resolved == pc \in {"classify", "csv", "summary", "done"}

ClassifiedRows == pc \in {"csv", "summary", "done"}

Logged == pc \in {"summary", "done"}

\* The positions of nodes that carry a non-empty gossip address.
GossipPositions ==
    {k \in 1..Len(nodes) : "gossip" \in DOMAIN nodes[k] /\ Len(nodes[k].gossip) > 0}

SampledHost(k) == SplitFirst(sampled_nodes[k].gossip)

SampledHosts == {SampledHost(k) : k \in 1..Len(sampled_nodes)}

\* The last sampled node, in iteration order, whose host is h.
LastWithHost(h) ==
    sampled_nodes[CHOOSE k \in 1..Len(sampled_nodes) :
                      /\ SampledHost(k) = h
                      /\ \A j \in (k + 1)..Len(sampled_nodes) :
                            SampledHost(j) # h]

\* C2: node_map holds exactly one entry per distinct host of the sampled
\* nodes, and that entry is the last sampled node with the host; the rows
\* are one per distinct host, each for that last node.
C2_OnePerHost ==
    /\ Extracted =>
          /\ Range(node_map.keys) = SampledHosts
          /\ DOMAIN node_map.val = SampledHosts
          /\ Len(node_map.keys) = Cardinality(SampledHosts)
          /\ \A h \in SampledHosts : node_map.val[h] = LastWithHost(h)
    /\ ClassifiedRows =>
          /\ Len(processed_data) = Cardinality(SampledHosts)
          /\ \A h \in SampledHosts :
                \E k \in 1..Len(processed_data) :
                   /\ processed_data[k].gossip_ip = h
                   /\ processed_data[k].pubkey = LastWithHost(h).pubkey

\* A finished run in which two sampled nodes shared a host, the earlier one
\* of which has no row.
C2_Witness ==
    /\ pc = "done"
    /\ \E j, k \in 1..Len(sampled_nodes) :
          /\ j < k
          /\ SampledHost(j) = SampledHost(k)
          /\ \A r \in 1..Len(processed_data) :
                processed_data[r].pubkey # sampled_nodes[j].pubkey
          /\ \E r \in 1..Len(processed_data) :
                processed_data[r].pubkey = sampled_nodes[k].pubkey

\* C3: a row is flagged exactly when its country_code is one of IR, KP, CU,
\* SY, RU, BY, VE, MM; a host missing from the geolocation result, and a host
\* whose reply item has no country code, are never flagged.
C3_SanctionedIffListed ==
    ClassifiedRows =>
        \A k \in 1..Len(processed_data) :
            LET row == processed_data[k]
            IN  /\ row.is_ofac_sanctioned <=>
                      row.country_code \in
                          {"IR", "KP", "CU", "SY", "RU", "BY", "VE", "MM"}
                /\ row.gossip_ip \notin DOMAIN geo_data =>
                      ~row.is_ofac_sanctioned
                /\ row.country_code \in {"XX", "Unknown"} =>
                      ~row.is_ofac_sanctioned

\* A finished run with a flagged row, a row of a host missing from the
\* geolocation result and a row of a host whose reply had no country code.
C3_Witness ==
    /\ pc = "done"
    /\ \E k \in 1..Len(processed_data) : processed_data[k].is_ofac_sanctioned
    /\ \E k \in 1..Len(processed_data) :
          processed_data[k].gossip_ip \notin DOMAIN geo_data
    /\ \E k \in 1..Len(processed_data) :
          processed_data[k].country_code = "Unknown"

RECURSIVE SumOver(_, _)
SumOver(f, n) == IF n = 0 THEN 0 ELSE f[n] + SumOver(f, n - 1)

RECURSIVE ConcatAll(_, _)
ConcatAll(f, n) == IF n = 0 THEN <<>> ELSE ConcatAll(f, n - 1) \o f[n]

IsPrefix(a, b) == Len(a) <= Len(b) /\ a = SubSeq(b, 1, Len(a))

HeaderOnceFirst ==
    /\ Len(csv_lines) >= 1
    /\ csv_lines[1] = fieldnames
    /\ \A k \in 2..Len(csv_lines) : csv_lines[k] # fieldnames

\* C4 as stated: once a run has written the log, the header is its first
\* line and occurs once, and the number of data rows is the sum of the runs'
\* sampled counts.
C4_RowsEqualSampled ==
    Logged =>
        /\ HeaderOnceFirst
        /\ Len(csv_lines) - 1 =
              SumOver([r \in 1..Len(history) |-> history[r].sampled],
                      Len(history))

\* C4, amended: once a run has written the log, the header is its first line
\* and occurs once, the lines after it are the rows of every run in run
\* order, and their number is the sum over the runs of the number of
\* distinct hosts among the run's sampled nodes; and no step changes a line
\* the log already holds.
C4_LogCumulative ==
    /\ [](Logged =>
            /\ HeaderOnceFirst
            /\ Len(history) = run
            /\ csv_lines =
                  <<fieldnames>> \o
                  ConcatAll([r \in 1..Len(history) |-> history[r].written],
                            Len(history))
            /\ history[run].written = CsvRows(processed_data)
            /\ Len(csv_lines) - 1 =
                  SumOver([r \in 1..Len(history) |-> history[r].hosts],
                          Len(history)))
    /\ [][IsPrefix(csv_lines, csv_lines')]_vars

\* Two runs have written rows, and in one of them two sampled nodes shared
\* a host.
C4_Witness ==
    /\ pc = "done"
    /\ run = 2
    /\ \A r \in 1..2 : Len(history[r].written) > 0
    /\ \E r \in 1..2 : history[r].sampled > Len(history[r].written)

\* The number of rows of the latest run that satisfy P.
RowCount(P(_)) ==
    Cardinality({k \in 1..Len(processed_data) : P(processed_data[k])})

CodeCount(code) == RowCount(LAMBDA row : row.country_code = code)

RowCodes == {processed_data[k].country_code : k \in 1..Len(processed_data)}

\* C5: after a run the summary holds that run's figures alone: the total,
\* the sanctioned count, the percentage and the five highlight counts are
\* those of the run's rows, and the breakdown has one line for each country
\* code of the run's rows, with its count, and no other line.
C5_SummaryOfLatestRun ==
    pc = "done" =>
        LET flagged == RowCount(LAMBDA row : row.is_ofac_sanctioned)
            total   == Len(processed_data)
        IN  /\ Len(summary_file) = 16 + Cardinality(RowCodes)
            /\ summary_file[2] = "Date: " \o StrfTime(run)
            /\ summary_file[3] = "Total Nodes Sampled: " \o NumStr(total)
            /\ summary_file[5] = "Sanctioned Nodes (OFAC): " \o NumStr(flagged)
            /\ summary_file[6] = "Non-Compliance Percentage: "
                  \o Fixed2(NonCompliancePct(flagged, total)) \o "%"
            /\ summary_file[9] = "  US (USA): " \o NumStr(CodeCount("US"))
            /\ summary_file[10] = "  DE (Germany): " \o NumStr(CodeCount("DE"))
            /\ summary_file[11] = "  RU (Russia): " \o NumStr(CodeCount("RU"))
            /\ summary_file[12] = "  IR (Iran): " \o NumStr(CodeCount("IR"))
            /\ summary_file[13] =
                  "  KP (North Korea): " \o NumStr(CodeCount("KP"))
            /\ {summary_file[k] : k \in 17..Len(summary_file)} =
                  {"  " \o c \o ": " \o NumStr(CodeCount(c)) : c \in RowCodes}

\* A second run has finished with no RU row, after a first run that logged
\* an RU row: the summary shows RU as 0 and has no RU line.
C5_Witness ==
    /\ pc = "done"
    /\ run = 2
    /\ \E k \in 2..Len(csv_lines) : csv_lines[k][5] = "RU"
    /\ "RU" \notin RowCodes
    /\ summary_file[11] = "  RU (Russia): 0"
    /\ Len(processed_data) > 0

\* The hosts for which a reply item was stored: per request, the queries
\* answered by the items that came before the end of the reply or before its
\* first malformed item.
StoredHosts ==
    UNION { {requests[c][p] : p \in 1..chunk_ends[c].stored} :
              c \in 1..Len(chunk_ends) }

ChunksOf(n) == (n + 99) \div 100

UnknownRow(row) ==
    /\ row.country_name = "Unknown"
    /\ ~row.is_ofac_sanctioned

\* C6 as stated: when the resolver has returned, no host of a chunk that
\* failed is in its result, every chunk was requested once, and the rows of
\* the failed chunks' hosts are 'Unknown' and not flagged.
C6_FailedChunkOmitted ==
    /\ Resolved =>
          /\ Len(requests) = ChunksOf(Len(ip_list))
          /\ \A c \in 1..Len(chunk_ends) :
                chunk_ends[c].raised =>
                    \A h \in Range(requests[c]) : h \notin DOMAIN geo_data
    /\ ClassifiedRows =>
          \A c \in 1..Len(chunk_ends) :
             chunk_ends[c].raised =>
                \A k \in 1..Len(processed_data) :
                   processed_data[k].gossip_ip \in Range(requests[c]) =>
                      UnknownRow(processed_data[k])

\* C6, amended: a chunk that fails is requested once like any other and
\* stops neither the loop nor the run: request c carries the c-th chunk
\* whatever became of the chunks before it, and every chunk has been
\* requested when the resolver returns.  The result holds exactly the hosts
\* for which an item was stored: none from a reply that never parsed, the
\* ones before the malformed item from a reply that turned malformed, all of
\* a good reply.  A host without an entry gets a row with code 'XX', name
\* 'Unknown', not flagged.
C6_FailureKeepsGoing ==
    /\ Len(chunk_ends) = Len(requests)
    /\ \A c \in 1..Len(requests) :
          /\ chunk_ends[c].offset = (c - 1) * 100
          /\ requests[c] =
                SubSeq(ip_list, (c - 1) * 100 + 1,
                       IF c * 100 < Len(ip_list) THEN c * 100 ELSE Len(ip_list))
          /\ chunk_ends[c].raised => chunk_ends[c].stored < Len(requests[c])
    /\ Resolved =>
          /\ Len(requests) = ChunksOf(Len(ip_list))
          /\ DOMAIN geo_data = StoredHosts
    /\ ClassifiedRows =>
          LET stored == StoredHosts
          IN  \A k \in 1..Len(processed_data) :
                 processed_data[k].gossip_ip \notin stored =>
                    /\ processed_data[k].country_code = "XX"
                    /\ UnknownRow(processed_data[k])

\* A finished run whose first chunk failed and whose second chunk was
\* stored in full, with rows of both kinds.
C6_Witness ==
    /\ pc = "done"
    /\ Len(chunk_ends) = 2
    /\ chunk_ends[1].raised
    /\ ~chunk_ends[2].raised
    /\ chunk_ends[2].stored = Len(requests[2])
    /\ \E k \in 1..Len(processed_data) : processed_data[k].country_code = "XX"
    /\ \E k \in 1..Len(processed_data) : processed_data[k].country_code = "US"

FetchFailed == fetch_outcome \in FetchOutcomes \ {"ok"}

\* C7: in a run whose directory fetch failed, nodes is empty, no node is
\* sampled, no geolocation request is issued, no row is produced or written,
\* the run always has a next step until it is done, and the summary shows
\* total 0, sanctioned 0 and 0.00%.
C7_FetchFailureEmptyRun ==
    FetchFailed =>
        /\ nodes = <<>>
        /\ sampled_nodes = <<>>
        /\ requests = <<>>
        /\ processed_data = <<>>
        /\ pc # "done" => ENABLED Next
        /\ Logged =>
              /\ history[run].written = <<>>
              /\ csv_lines[1] = fieldnames
              /\ Len(csv_lines) - 1 =
                    SumOver([r \in 1..(run - 1) |-> Len(history[r].written)],
                            run - 1)
        /\ pc = "done" =>
              /\ summary_file[3] = "Total Nodes Sampled: 0"
              /\ summary_file[5] = "Sanctioned Nodes (OFAC): 0"
              /\ summary_file[6] = "Non-Compliance Percentage: 0.00%"

\* A second run whose fetch failed has finished, with the rows of the first
\* run still in the log.
C7_Witness ==
    /\ pc = "done"
    /\ run = 2
    /\ fetch_outcome = "timeout"
    /\ Len(csv_lines) > 1

\* The directory returned the three nodes of the example, and the resolver
\* has US for the first, RU for the second and, for the third, either no
\* entry or an entry with the code 'Unknown'.
EndToEndExample ==
    /\ pc = "done"
    /\ Len(nodes) = 3
    /\ \A k \in 1..3 : "gossip" \in DOMAIN nodes[k]
    /\ nodes[1].gossip = <<"1.1.1.1", ":", "8001">>
    /\ nodes[2].gossip = <<"2.2.2.2", ":", "8001">>
    /\ nodes[3].gossip = <<"3.3.3.3", ":", "8001">>
    /\ "1.1.1.1" \in DOMAIN geo_data /\ geo_data["1.1.1.1"].code = "US"
    /\ "2.2.2.2" \in DOMAIN geo_data /\ geo_data["2.2.2.2"].code = "RU"
    /\ \/ "3.3.3.3" \notin DOMAIN geo_data
       \/ geo_data["3.3.3.3"].code = "Unknown"

ExampleFigures ==
    /\ Len(processed_data) = 3
    /\ sanctioned_count = 1
    /\ summary_file[6] = "Non-Compliance Percentage: 33.33%"

\* C8 as stated: in the example there are 3 rows, the tally is
\* {US: 1, RU: 1, Unknown: 1}, sanctioned_count is 1 and the percentage
\* 33.33.
C8_ExampleTallyUnknown ==
    EndToEndExample =>
        /\ ExampleFigures
        /\ country_counter.cnt = [c \in {"US", "RU", "Unknown"} |-> 1]

\* C8, amended: in the example there are 3 rows, sanctioned_count is 1, the
\* percentage is 33.33, and the tally is {US: 1, RU: 1, Unknown: 1} when the
\* reply for 3.3.3.3 had no country code and {US: 1, RU: 1, XX: 1} when
\* 3.3.3.3 is missing from the geolocation result.
C8_ExampleTally ==
    EndToEndExample =>
        /\ ExampleFigures
        /\ country_counter.cnt =
              [c \in {"US", "RU",
                      IF "3.3.3.3" \in DOMAIN geo_data THEN "Unknown"
                      ELSE "XX"} |-> 1]

\* The example with 3.3.3.3 missing from the geolocation result.
C8_Witness == EndToEndExample /\ "3.3.3.3" \notin DOMAIN geo_data

\* C9: every request carries at most 100 queries and every request but the
\* last exactly 100; a run issues at most 2 requests; and when the resolver
\* has returned, the requests in order are the host list cut into
\* consecutive pieces, ceil(len/100) of them, none for an empty list.
C9_Chunking ==
    /\ \A c \in 1..Len(requests) :
          /\ 1 <= Len(requests[c])
          /\ Len(requests[c]) <= 100
          /\ c < Len(requests) => Len(requests[c]) = 100
    /\ Len(requests) <= 2
    /\ Resolved =>
          /\ ConcatAll(requests, Len(requests)) = ip_list
          /\ Len(requests) = ChunksOf(Len(ip_list))
          /\ ip_list = <<>> => requests = <<>>

\* A finished run that sent 150 hosts as a request of 100 and one of 50.
C9_Witness ==
    /\ pc = "done"
    /\ Len(ip_list) = 150
    /\ Len(requests) = 2
    /\ Len(requests[1]) = 100
    /\ Len(requests[2]) = 50

OfacCodes == <<"IR", "KP", "CU", "SY", "RU", "BY", "VE", "MM">>

\* C10: after classification the tally has one entry per country code of
\* the rows, each the number of rows with that code, so that its sum is the
\* number of rows and the summary's Other figure is 0; sanctioned_count is
\* the number of flagged rows, which is the tally summed over the eight
\* sanctioned codes and at most the number of rows.
C10_CountersAgree ==
    ClassifiedRows =>
        LET c == country_counter
        IN  /\ Range(c.keys) = RowCodes
            /\ DOMAIN c.cnt = RowCodes
            /\ Len(c.keys) = Cardinality(RowCodes)
            /\ \A code \in RowCodes : c.cnt[code] = CodeCount(code)
            /\ SumOver([k \in 1..Len(c.keys) |-> c.cnt[c.keys[k]]],
                       Len(c.keys)) = Len(processed_data)
            /\ sanctioned_count =
                  RowCount(LAMBDA row : row.is_ofac_sanctioned)
            /\ sanctioned_count =
                  SumOver([k \in 1..8 |->
                              IF OfacCodes[k] \in DOMAIN c.cnt
                              THEN c.cnt[OfacCodes[k]] ELSE 0], 8)
            /\ sanctioned_count <= Len(processed_data)
            /\ pc = "done" => summary_file[14] = "  Other: 0"

\* A finished run with two country codes, one of them counted twice, and a
\* flagged row.
C10_Witness ==
    /\ pc = "done"
    /\ Len(country_counter.keys) >= 2
    /\ \E code \in RowCodes : country_counter.cnt[code] >= 2
    /\ sanctioned_count >= 1
====
